---- MODULE Spec2Model ----
(***************************************************************************)
(* Marching Cubes Visualizer: the per-cube polygon extraction              *)
(* (marchingCubesPolygons), the field generation and normalisation         *)
(* (calculateWorldValues), the whole-grid driver (findPolygons) and the    *)
(* main loop's two trigger events (mouse wheel, R key).                    *)
(*                                                                         *)
(* Numbers.  A field sample is the exact fraction <<n, d>> in lowest terms *)
(* (d > 0), or NaN == <<0, 0>>, the value numpy gives for 0.0/0.0.  The    *)
(* threshold is an integer count of the 0.01 wheel steps (Unit steps make  *)
(* 1.0).  Cube-local coordinates are integers in units of 1/2, so the      *)
(* midpoint (a+b)/2 of two corner coordinates is the integer a+b.          *)
(***************************************************************************)
EXTENDS Integers, Sequences, FiniteSets, TLC

VARIABLES
    worldSize,        \* self.worldSize: the number of samples per axis
    world,            \* self.world: sample position -> sample
    worldThreshold,   \* self.worldThreshold, in steps of 0.01
    polygons,         \* self.polygons: grid position -> sequence of points
    seedWorldTimer,   \* self.seedWorldTimer
    pc,               \* position in mainLoop / in the single extraction call
    values,           \* argument of a direct marchingCubesPolygons call
    threshold,        \* argument of a direct marchingCubesPolygons call
    polygonVertices   \* value returned by the direct call

vars == <<worldSize, world, worldThreshold, polygons, seedWorldTimer, pc,
          values, threshold, polygonVertices>>

-----------------------------------------------------------------------------
(* Bounds of the model *)

\* raw noise samples are the levels 0..RawMax
RawMax == 2
\* with the full layered field family the wheel moves the threshold at most
\* MaxWheel steps away from its initial value
MaxWheel == 1

-----------------------------------------------------------------------------
(* Numbers *)

\* 1.0 in threshold steps: the wheel step is the literal 0.01
Unit == 100

NaN == <<0, 0>>

RECURSIVE GCD(_, _)
GCD(a, b) == IF b = 0 THEN a ELSE GCD(b, a % b)

\* the quotient n / d of two floats holding the integers n >= 0 and d >= 0;
\* n is 0 whenever d is 0 here, and numpy's 0.0/0.0 is nan (a warning, no error)
Divide(n, d) == IF d = 0 THEN NaN ELSE <<n \div GCD(n, d), d \div GCD(n, d)>>

\* sample > threshold, the comparison of line 63; any comparison with nan is False
Greater(v, t) == v[2] # 0 /\ v[1] * Unit > t * v[2]

-----------------------------------------------------------------------------
(* marchingCubesPolygons *)

Corners == 0..7

VERTICES ==
    [i \in Corners |->
        CASE i = 0 -> <<0,0,0>>
          [] i = 1 -> <<1,0,0>>
          [] i = 2 -> <<1,1,0>>
          [] i = 3 -> <<0,1,0>>
          [] i = 4 -> <<0,0,1>>
          [] i = 5 -> <<1,0,1>>
          [] i = 6 -> <<1,1,1>>
          [] i = 7 -> <<0,1,1>>]

EDGES ==
    << <<0,1>>, <<1,2>>, <<2,3>>, <<0,3>>,
       <<0,4>>, <<1,5>>, <<2,6>>, <<3,7>>,
       <<4,5>>, <<5,6>>, <<6,7>>, <<4,7>> >>

\* line 63 with >= in place of >: a value equal to the threshold counts as greater
Wrong_isActive(vals, thr, edge) ==
    (Greater(vals[edge[1]], thr) \/ vals[edge[1]] = Divide(thr, Unit))
        # (Greater(vals[edge[2]], thr) \/ vals[edge[2]] = Divide(thr, Unit))

\* line 63: the edge straddles a threshold crossing
isActive(vals, thr, edge) ==
    Greater(vals[edge[1]], thr) # Greater(vals[edge[2]], thr)

\* lines 61-64: the active edges, in EDGES order
RECURSIVE activeEdgesFrom(_, _, _)
activeEdgesFrom(vals, thr, k) ==
    IF k > Len(EDGES) THEN << >>
    ELSE (IF isActive(vals, thr, EDGES[k]) THEN << EDGES[k] >> ELSE << >>)
         \o activeEdgesFrom(vals, thr, k + 1)

\* the loop of line 61 stopping one edge short
Wrong_activeEdges(vals, thr) ==
    LET all == activeEdgesFrom(vals, thr, 1)
    IN  IF isActive(vals, thr, EDGES[Len(EDGES)])
        THEN SubSeq(all, 1, Len(all) - 1) ELSE all

activeEdges(vals, thr) == activeEdgesFrom(vals, thr, 1)

\* line 68 taking the edge's first corner in place of the midpoint
Wrong_midpoint(edge) ==
    [c \in 1..3 |-> 2 * VERTICES[edge[1]][c]]

\* line 68: (a+b)/2 per coordinate, in units of 1/2
midpoint(edge) ==
    [c \in 1..3 |-> VERTICES[edge[1]][c] + VERTICES[edge[2]][c]]

\* lines 67-69
midpoints(active) == [k \in 1..Len(active) |-> midpoint(active[k])]

\* line 75: the sort key, the Euclidean distance from a to item.  The model
\* keeps the sum of squares (4 times the squared distance, in half units):
\* the square root is strictly increasing and the sums are small integers
\* over 4, whose float square roots are distinct.
key(item, a) ==
    (item[1]-a[1])*(item[1]-a[1]) + (item[2]-a[2])*(item[2]-a[2])
        + (item[3]-a[3])*(item[3]-a[3])

\* insert x into the sorted sequence s behind every element whose key is
\* not greater (Python's sorted is stable)
RECURSIVE insertSorted(_, _, _)
insertSorted(x, s, a) ==
    IF s = << >> THEN << x >>
    ELSE IF key(Head(s), a) <= key(x, a)
         THEN << Head(s) >> \o insertSorted(x, Tail(s), a)
         ELSE << x >> \o s

\* sorted(s, key=distance to a)
RECURSIVE sorted(_, _)
sorted(s, a) ==
    IF s = << >> THEN << >>
    ELSE insertSorted(s[Len(s)], sorted(SubSeq(s, 1, Len(s) - 1), a), a)

\* lines 73-76 measuring every distance from the first element
Wrong_sortStep(pv, index) ==
    SubSeq(pv, 1, index) \o sorted(SubSeq(pv, index + 1, Len(pv)), pv[1])

\* lines 72-76: for each index, sort the suffix behind it by the distance to
\* the element at it.  index is the 1-based position.
sortStep(pv, index) ==
    SubSeq(pv, 1, index) \o sorted(SubSeq(pv, index + 1, Len(pv)), pv[index])

RECURSIVE sortLoop(_, _)
sortLoop(pv, index) ==
    IF index > Len(pv) THEN pv ELSE sortLoop(sortStep(pv, index), index + 1)

marchingCubesPolygons(vals, thr) ==
    sortLoop(midpoints(activeEdges(vals, thr)), 1)

-----------------------------------------------------------------------------
(* A direct call of marchingCubesPolygons on 8 values and a threshold *)

Levels == { Divide(k, RawMax) : k \in 0..RawMax }

InitialThreshold == 50

CubeThresholds == {0, InitialThreshold, Unit}

Idle == [i \in Corners |-> Divide(0, 1)]

-----------------------------------------------------------------------------
(* MarchingCubesVisualizer *)

\* the worldSize arguments of the constructor that are explored (main passes
\* even values only, 10 by default): 0 gives a single sample, 2 the smallest
\* world in which a cube has samples outside its neighbourhood
WorldSizeArgs == {0, 2}

FPS == 30

Axis(n) == 0..(n - 1)

\* the index triples of an n^3 nested list
Pos(n) == Axis(n) \X Axis(n) \X Axis(n)

\* range(self.worldSize-1) on each axis: the cube origins
CubeOrigins(n) ==
    { p \in Pos(n) : p[1] < n - 1 /\ p[2] < n - 1 /\ p[3] < n - 1 }

\* snoise4(x/worldSize, y/worldSize, z/worldSize, pNoiseSeed) over the grid,
\* for an unknown seed, with levels 0..RawMax: a raw field that varies along
\* one of the given axes only
LayeredFields(n, axes) ==
    { [p \in Pos(n) |-> ag[2][p[ag[1]]]] :
        ag \in axes \X [Axis(n) -> 0..RawMax] }

\* a raw field that is 0 except for one sample
HotFields(n) ==
    { [p \in Pos(n) |-> IF p = ph[1] THEN ph[2] ELSE 0] :
        ph \in Pos(n) \X (1..RawMax) }

Fields(n) == LayeredFields(n, 1..3) \cup HotFields(n)

\* the one field rising along x
RampFields(n) ==
    { [p \in Pos(n) |-> IF p[1] <= RawMax THEN p[1] ELSE RawMax] }

Max(S) == CHOOSE m \in S : \A n \in S : n <= m
Min(S) == CHOOSE m \in S : \A n \in S : m <= n

\* lines 370-376: the normalisation pass over the raw field
calculateWorldValues(raw) ==
    LET worldMax == Max({ raw[p] : p \in DOMAIN raw })
        worldMin == Min({ raw[p] : p \in DOMAIN raw })
    IN  [p \in DOMAIN raw |-> Divide(raw[p] - worldMin, worldMax - worldMin)]

\* lines 388-389 with the samples of corners 1 and 3 exchanged
Wrong_cubeValues(w, x, y, z) ==
    [i \in Corners |->
        CASE i = 0 -> w[<<x,   y,   z  >>]
          [] i = 1 -> w[<<x,   y+1, z  >>]
          [] i = 2 -> w[<<x+1, y+1, z  >>]
          [] i = 3 -> w[<<x+1, y,   z  >>]
          [] i = 4 -> w[<<x,   y,   z+1>>]
          [] i = 5 -> w[<<x+1, y,   z+1>>]
          [] i = 6 -> w[<<x+1, y+1, z+1>>]
          [] i = 7 -> w[<<x,   y+1, z+1>>]]

\* lines 388-389: the 8 samples of the cube at (x,y,z)
cubeValues(w, x, y, z) ==
    [i \in Corners |->
        CASE i = 0 -> w[<<x,   y,   z  >>]
          [] i = 1 -> w[<<x+1, y,   z  >>]
          [] i = 2 -> w[<<x+1, y+1, z  >>]
          [] i = 3 -> w[<<x,   y+1, z  >>]
          [] i = 4 -> w[<<x,   y,   z+1>>]
          [] i = 5 -> w[<<x+1, y,   z+1>>]
          [] i = 6 -> w[<<x+1, y+1, z+1>>]
          [] i = 7 -> w[<<x,   y+1, z+1>>]]

\* lines 388-391: the entry stored for the cube at origin p
polygonAt(w, thr, p) ==
    marchingCubesPolygons(cubeValues(w, p[1], p[2], p[3]), thr)

\* lines 384-391: every cube origin's entry is replaced, the others are kept
findPolygons(w, thr, polys) ==
    [p \in DOMAIN polys |->
        IF p \in CubeOrigins(worldSize) THEN polygonAt(w, thr, p) ELSE polys[p]]

\* line 103 with worldSize-1 entries per axis
Wrong_polygonsAlloc(n) == [p \in CubeOrigins(n) |-> << >>]

\* line 103: the grid as allocated, worldSize entries per axis
polygonsAlloc(n) == [p \in Pos(n) |-> << >>]

\* lines 96-104 of __init__; the direct-call variables stay idle
InitWith(args, fields) ==
    /\ worldSize \in { arg + 1 : arg \in args }
    /\ \E raw \in fields : world = calculateWorldValues(raw)
    /\ worldThreshold = InitialThreshold
    /\ polygons = findPolygons(world, worldThreshold, polygonsAlloc(worldSize))
    /\ seedWorldTimer = FPS
    /\ pc = "events"
    /\ values = Idle
    /\ threshold = InitialThreshold
    /\ polygonVertices = << >>

\* what the main loop never writes
fixed == <<worldSize, values, threshold, polygonVertices>>

\* lines 157-159: pygame.QUIT
Quit ==
    /\ pc = "events"
    /\ pc' = "exited"
    /\ UNCHANGED <<world, worldThreshold, polygons, seedWorldTimer, fixed>>

\* the upper clamp of line 164 left out
Wrong_wheel(thr, button) ==
    LET up   == IF button = 5 THEN thr + 1 ELSE thr
    IN  IF button = 4
        THEN (IF up - 1 < 0 THEN 0 ELSE up - 1)
        ELSE up

\* lines 162-167: the threshold after a press of the given mouse button
wheel(thr, button) ==
    LET up   == IF button = 5
                THEN (IF thr + 1 > Unit THEN Unit ELSE thr + 1)
                ELSE thr
    IN  IF button = 4
        THEN (IF up - 1 < 0 THEN 0 ELSE up - 1)
        ELSE up

Abs(n) == IF n < 0 THEN 0 - n ELSE n

\* lines 161-167 without the findPolygons call of line 169
Wrong_MouseButtonDown(span) ==
    /\ pc = "events"
    /\ \E button \in 1..5 :
          /\ Abs(wheel(worldThreshold, button) - InitialThreshold) <= span
          /\ worldThreshold' = wheel(worldThreshold, button)
    /\ UNCHANGED <<world, polygons, seedWorldTimer, pc, fixed>>

\* lines 161-169: pygame.MOUSEBUTTONDOWN; span bounds the explored range
MouseButtonDown(span) ==
    /\ pc = "events"
    /\ \E button \in 1..5 :
          /\ Abs(wheel(worldThreshold, button) - InitialThreshold) <= span
          /\ worldThreshold' = wheel(worldThreshold, button)
    /\ polygons' = findPolygons(world, worldThreshold', polygons)
    /\ UNCHANGED <<world, seedWorldTimer, pc, fixed>>

\* line 155: the event queue is exhausted
EventsDone ==
    /\ pc = "events"
    /\ pc' = "keyboard"
    /\ UNCHANGED <<world, worldThreshold, polygons, seedWorldTimer, fixed>>

\* lines 211-214 with a regeneration that also empties the polygon grid
Wrong_keyboardController(fields) ==
    /\ pc = "keyboard"
    /\ \E keyR \in BOOLEAN :
          IF keyR /\ seedWorldTimer = 0
          THEN /\ seedWorldTimer' = FPS \div 4
               /\ \E raw \in fields :
                     world' = calculateWorldValues(raw)
               /\ polygons' = polygonsAlloc(worldSize)
               /\ pc' = "regenerated"
          ELSE /\ seedWorldTimer' =
                     IF seedWorldTimer # 0 THEN seedWorldTimer - 1 ELSE 0
               /\ pc' = "draw"
               /\ UNCHANGED <<world, polygons>>
    /\ UNCHANGED <<worldThreshold, fixed>>

\* lines 211-218, up to the return of calculateWorldValues: R pressed or not
keyboardController(fields) ==
    /\ pc = "keyboard"
    /\ \E keyR \in BOOLEAN :
          IF keyR /\ seedWorldTimer = 0
          THEN /\ seedWorldTimer' = FPS \div 4
               /\ \E raw \in fields :
                     world' = calculateWorldValues(raw)
               /\ pc' = "regenerated"
               /\ UNCHANGED polygons
          ELSE /\ seedWorldTimer' =
                     IF seedWorldTimer # 0 THEN seedWorldTimer - 1 ELSE 0
               /\ pc' = "draw"
               /\ UNCHANGED <<world, polygons>>
    /\ UNCHANGED <<worldThreshold, fixed>>

\* lines 215-218: findPolygons after the regeneration, then the timer
regenerated ==
    /\ pc = "regenerated"
    /\ polygons' = findPolygons(world, worldThreshold, polygons)
    /\ seedWorldTimer' =
           IF seedWorldTimer # 0 THEN seedWorldTimer - 1 ELSE 0
    /\ pc' = "draw"
    /\ UNCHANGED <<world, worldThreshold, fixed>>

\* lines 179-190: drawScene reads world, worldThreshold and polygons
drawScene ==
    /\ pc = "draw"
    /\ pc' = "events"
    /\ UNCHANGED <<world, worldThreshold, polygons, seedWorldTimer, fixed>>

Init == InitWith(WorldSizeArgs, Fields(worldSize))

Next ==
    \/ Quit
    \/ MouseButtonDown(MaxWheel)
    \/ EventsDone
    \/ keyboardController(Fields(worldSize))
    \/ regenerated
    \/ drawScene

Spec == Init /\ [][Next]_vars

\* the whole threshold range, on the one ramp field
InitThreshold == InitWith({2}, RampFields(worldSize))

NextThreshold ==
    \/ Quit
    \/ MouseButtonDown(Unit)
    \/ EventsDone
    \/ keyboardController(RampFields(worldSize))
    \/ regenerated
    \/ drawScene

SpecThreshold == InitThreshold /\ [][NextThreshold]_vars

\* a direct call on every combination of levels and thresholds
InitCube ==
    /\ values \in [Corners -> Levels]
    /\ threshold \in CubeThresholds
    /\ polygonVertices = << >>
    /\ pc = "call"
    /\ worldSize = 1
    /\ world = [p \in Pos(1) |-> Divide(0, 1)]
    /\ worldThreshold = InitialThreshold
    /\ polygons = polygonsAlloc(1)
    /\ seedWorldTimer = FPS

Call ==
    /\ pc = "call"
    /\ polygonVertices' = marchingCubesPolygons(values, threshold)
    /\ pc' = "return"
    /\ UNCHANGED <<worldSize, world, worldThreshold, polygons,
                   seedWorldTimer, values, threshold>>

NextCube == Call

SpecCube == InitCube /\ [][NextCube]_vars

\* a single findPolygons pass over a freshly allocated grid, for every field
\* and for the thresholds around the initial one and at both clamps
FindThresholds ==
    ((InitialThreshold - MaxWheel)..(InitialThreshold + MaxWheel))
        \cup {0, Unit}

InitFind ==
    /\ worldSize \in { arg + 1 : arg \in WorldSizeArgs }
    /\ \E raw \in Fields(worldSize) : world = calculateWorldValues(raw)
    /\ worldThreshold \in FindThresholds
    /\ polygons = polygonsAlloc(worldSize)
    /\ seedWorldTimer = FPS
    /\ pc = "find"
    /\ values = Idle
    /\ threshold = InitialThreshold
    /\ polygonVertices = << >>

Find ==
    /\ pc = "find"
    /\ polygons' = findPolygons(world, worldThreshold, polygons)
    /\ pc' = "found"
    /\ UNCHANGED <<world, worldThreshold, seedWorldTimer, fixed>>

NextFind == Find

SpecFind == InitFind /\ [][NextFind]_vars

-----------------------------------------------------------------------------
(* Properties of marchingCubesPolygons, under SpecCube *)

\* two corners joined by an edge of the unit cube: their positions differ in
\* exactly one coordinate
Adjacent(a, b) ==
    Cardinality({ c \in 1..3 : VERTICES[a][c] # VERTICES[b][c] }) = 1

\* brute-force enumeration of the straddled cube edges
Straddled(vals, thr) ==
    { e \in Corners \X Corners :
        /\ e[1] < e[2]
        /\ Adjacent(e[1], e[2])
        /\ Greater(vals[e[1]], thr) # Greater(vals[e[2]], thr) }

Above(vals, thr) == { i \in Corners : Greater(vals[i], thr) }

Range(s) == { s[k] : k \in 1..Len(s) }

\* C1: the number of returned vertices is the number of cube edges whose two
\* corner values straddle the threshold (a value equal to the threshold is not
\* greater); the result is empty when all 8 corners agree.
C1_CountIsStraddledEdges ==
    pc = "return" =>
        /\ Len(polygonVertices) = Cardinality(Straddled(values, threshold))
        /\ (Above(values, threshold) \in {{}, Corners} => polygonVertices = << >>)

\* a corner equal to the threshold next to a greater corner: the edge is active
C1_Witness ==
    /\ pc = "return"
    /\ threshold = InitialThreshold
    /\ values[0] = Divide(InitialThreshold, Unit)
    /\ values[1] = Divide(1, 1)
    /\ Len(polygonVertices) >= 1

\* C2: the returned sequence is a permutation of the arithmetic midpoints of
\* exactly the active edges, so each point lies in the unit cube with exactly
\* one coordinate equal to 1/2 (1 in half units).
C2_PermutationOfMidpoints ==
    pc = "return" =>
        /\ Range(polygonVertices) =
              { [c \in 1..3 |-> VERTICES[e[1]][c] + VERTICES[e[2]][c]] :
                  e \in Straddled(values, threshold) }
        /\ Cardinality(Range(polygonVertices)) = Len(polygonVertices)
        /\ \A k \in 1..Len(polygonVertices) :
              /\ \A c \in 1..3 : polygonVertices[k][c] \in 0..2
              /\ Cardinality({ c \in 1..3 : polygonVertices[k][c] = 1 }) = 1

C2_Witness ==
    /\ pc = "return"
    /\ Len(polygonVertices) = 6
    /\ polygonVertices[1] # midpoint(EDGES[1])

\* C8: the returned sequence is a greedy nearest-neighbour chain: it starts with
\* the midpoint of the first active edge in EDGES order, and the element behind
\* position i is nearest to the element at i among all later elements.
C8_GreedyChain ==
    (pc = "return" /\ polygonVertices # << >>) =>
        /\ LET first == Min({ k \in 1..Len(EDGES) :
                               isActive(values, threshold, EDGES[k]) })
           IN  polygonVertices[1] = midpoint(EDGES[first])
        /\ \A i \in 1..(Len(polygonVertices) - 1) :
              \A j \in (i + 1)..Len(polygonVertices) :
                 key(polygonVertices[i + 1], polygonVertices[i])
                    <= key(polygonVertices[j], polygonVertices[i])

\* a result the sort had to reorder
C8_Witness ==
    /\ pc = "return"
    /\ Len(polygonVertices) >= 4
    /\ polygonVertices # midpoints(activeEdges(values, threshold))

\* C9 as stated: the number of returned vertices is 0 or even, and at most 12.
C9_EvenCount ==
    pc = "return" =>
        /\ Len(polygonVertices) % 2 = 0
        /\ Len(polygonVertices) <= 12

\* C9 amended: the number of returned vertices is at most 12, never 1 or 2,
\* and has the parity of the number of corners greater than the threshold.
C9_CountParity ==
    pc = "return" =>
        /\ Len(polygonVertices) \in {0} \cup 3..12
        /\ Len(polygonVertices) % 2
              = Cardinality(Above(values, threshold)) % 2

\* one corner above the threshold: three vertices
C9_Witness ==
    /\ pc = "return"
    /\ Cardinality(Above(values, threshold)) = 1
    /\ Len(polygonVertices) = 3

-----------------------------------------------------------------------------
(* Properties of the visualizer, under Spec and SpecThreshold *)

\* the 8 samples of the cube at origin p, corner i taken at offset VERTICES[i]
VertexSamples(w, p) ==
    [i \in Corners |->
        w[<<p[1] + VERTICES[i][1], p[2] + VERTICES[i][2], p[3] + VERTICES[i][3]>>]]

\* the sample positions of the 2x2x2 neighbourhood of the cube at origin p
Neighbourhood(p) ==
    { q \in Pos(worldSize) : \A c \in 1..3 : q[c] \in {p[c], p[c] + 1} }

\* C3: whenever drawScene reads the polygon grid, every cube origin's entry is
\* marchingCubesPolygons of the current field's 8 corner samples and the
\* current worldThreshold.
C3_GridFreshWhenDrawn ==
    pc = "draw" =>
        \A p \in CubeOrigins(worldSize) :
            polygons[p] =
                marchingCubesPolygons(VertexSamples(world, p), worldThreshold)

\* the grid is drawn after a wheel step that changed it
C3_Witness ==
    /\ pc = "draw"
    /\ worldThreshold # InitialThreshold
    /\ polygons # findPolygons(world, InitialThreshold, polygons)
    /\ \E p \in CubeOrigins(worldSize) : polygons[p] # << >>

\* C4: findPolygons stores at every cube origin marchingCubesPolygons of the 8
\* samples taken in VERTICES order, and the entry does not change when a
\* sample outside the cube's 2x2x2 neighbourhood is changed.
C4_EntryFromOwnCorners ==
    pc = "found" =>
        \A p \in CubeOrigins(worldSize) :
            /\ polygons[p] = marchingCubesPolygons(VertexSamples(world, p),
                                                   worldThreshold)
            /\ \A q \in Pos(worldSize) \ Neighbourhood(p) : \A v \in Levels \cup {NaN} :
                  polygonAt([world EXCEPT ![q] = v], worldThreshold, p)
                      = polygons[p]

\* a non-empty entry, and a sample outside its cube's neighbourhood that
\* differs from all 8 samples inside
C4_Witness ==
    /\ pc = "found"
    /\ \E p \in CubeOrigins(worldSize) :
          /\ polygons[p] # << >>
          /\ \E q \in Pos(worldSize) \ Neighbourhood(p) :
                \A r \in Neighbourhood(p) : world[r] # world[q]

C6_NormalizedOrZero ==
    /\ \A p \in Pos(worldSize) :
          /\ world[p] # NaN
          /\ world[p][2] > 0
          /\ 0 <= world[p][1] /\ world[p][1] <= world[p][2]
    /\ \/ \A p \in Pos(worldSize) : world[p] = Divide(0, 1)
       \/ /\ \E p \in Pos(worldSize) : world[p] = Divide(0, 1)
          /\ \E p \in Pos(worldSize) : world[p] = Divide(1, 1)

\* C7: worldThreshold starts at 0.5 and stays within [0,1]; button 5 raises it
\* by 0.01 and button 4 lowers it by 0.01, clamped to the nearer bound; it
\* changes only in the event loop, and findPolygons then runs with the new value.
C7_ThresholdClamped ==
    /\ worldThreshold = InitialThreshold
    /\ [](/\ worldThreshold \in 0..Unit
          /\ wheel(worldThreshold, 5) =
                IF worldThreshold = Unit THEN Unit ELSE worldThreshold + 1
          /\ wheel(worldThreshold, 4) =
                IF worldThreshold = 0 THEN 0 ELSE worldThreshold - 1)
    /\ [][worldThreshold' # worldThreshold =>
             /\ pc = "events"
             /\ worldThreshold' \in {wheel(worldThreshold, 5),
                                     wheel(worldThreshold, 4)}
             /\ polygons' = findPolygons(world, worldThreshold', polygons)]_vars

\* the threshold stands at the upper bound and the grid was extracted with it
C7_Witness ==
    /\ pc = "draw"
    /\ worldThreshold = Unit
    /\ \A p \in CubeOrigins(worldSize) : polygons[p] = << >>

\* C10: a mouse event and findPolygons leave the field unchanged, and
\* calculateWorldValues leaves the polygon grid and worldThreshold unchanged.
C10_Frames ==
    [][ /\ pc \in {"events", "regenerated", "draw"} => world' = world
        /\ pc = "keyboard" =>
              /\ polygons' = polygons
              /\ worldThreshold' = worldThreshold ]_vars

\* the field was regenerated and the grid still holds the old field's polygons
C10_Witness ==
    /\ pc = "regenerated"
    /\ polygons # findPolygons(world, worldThreshold, polygons)

====
